---- MODULE Spec2Model ----
(***************************************************************************)
(* Model of the ping algorithm of libparistraceroute                       *)
(* (libparistraceroute/algorithms/ping.c): the event handler               *)
(* ping_loop_handler, the probe dispatcher send_ping_probe(s), the ICMP    *)
(* classifier predicates and the caller's default handler ping_handler.    *)
(***************************************************************************)
EXTENDS Integers, Sequences, FiniteSets, TLC

(***************************************************************************)
(* Bounds of the model.                                                    *)
(***************************************************************************)
\* largest options->count explored
MaxCount == 2
\* largest number of events delivered to ping_loop_handler in one run
MaxEvents == 5

(***************************************************************************)
(* Program constants.                                                      *)
(***************************************************************************)
\* <netinet/ip_icmp.h>
ICMP_UNREACH == 3
ICMP_UNREACH_NET == 0
ICMP_UNREACH_HOST == 1
ICMP_UNREACH_PROTOCOL == 2
ICMP_UNREACH_PORT == 3
ICMP_TIMXCEED == 11
ICMP_TIMXCEED_INTRANS == 0
ICMP_TIMXCEED_REASS == 1
ICMP_REDIRECT == 5
ICMP_REDIRECT_NET == 0
ICMP_PARAMPROB == 12
\* <netinet/icmp6.h>
ICMP6_DST_UNREACH == 1
ICMP6_DST_UNREACH_NOROUTE == 0
ICMP6_DST_UNREACH_ADDR == 3
ICMP6_DST_UNREACH_NOPORT == 4
ICMP6_TIME_EXCEEDED == 3
ICMP6_TIME_EXCEED_TRANSIT == 0
ICMP6_TIME_EXCEED_REASSEMBLY == 1
ICMP6_PARAM_PROB == 4
ICMP6_PARAMPROB_HEADER == 0
ICMP6_PARAMPROB_NEXTHEADER == 1
ICMP6_PARAMPROB_OPTION == 2
ND_REDIRECT == 137
\* <errno.h>
EINVAL == 22
\* the sentinel delay of a probe that is sent as soon as possible
DELAY_BEST_EFFORT == -1


(***************************************************************************)
(* Replies.  A reply is the parsed packet the framework paired with a      *)
(* probe.  has_x tells whether probe_extract(reply, "x", ...) succeeds;    *)
(* version, type, code and src_ip are the values it then stores.  rtt is   *)
(* probe_get_recv_time(reply) - probe_get_sending_time(probe).             *)
(***************************************************************************)
Addresses == {"dst", "router"}
Versions == {4, 5, 6}
Types == {0, ICMP6_DST_UNREACH, ICMP_UNREACH, ICMP6_PARAM_PROB, ICMP_REDIRECT,
          ICMP_TIMXCEED, ICMP_PARAMPROB, ND_REDIRECT}
Codes == 0 .. 5

AllReplies ==
    [has_src_ip : BOOLEAN, src_ip : Addresses,
     has_version : BOOLEAN, version : Versions,
     has_type : BOOLEAN, type : Types,
     has_code : BOOLEAN, code : Codes,
     rtt : {10}]

\* the replies the framework delivers in the runs of the whole handler
EchoReply(a, r) ==
    [has_src_ip |-> TRUE, src_ip |-> a, has_version |-> TRUE, version |-> 4,
     has_type |-> TRUE, type |-> 0, has_code |-> TRUE, code |-> 0, rtt |-> r]
LoopReplies ==
    { EchoReply("dst", 10),
      [EchoReply("router", 10) EXCEPT !.type = ICMP_TIMXCEED],
      [EchoReply("router", 10) EXCEPT !.has_src_ip = FALSE,
                                      !.has_type = FALSE] }

\* uint8_t version = 0, code = 0, type = 0; probe_extract(reply, "x", &x);
\* the result of probe_extract is not tested: a field that cannot be
\* extracted leaves the variable at its initial value 0.
probe_extract(reply, name) ==
    CASE name = "version" -> IF reply.has_version THEN reply.version ELSE 0
      [] name = "code"    -> IF reply.has_code THEN reply.code ELSE 0
      [] name = "type"    -> IF reply.has_type THEN reply.type ELSE 0

\* the test of the IPv4 code against ICMP_UNREACH_NET instead of ICMP_UNREACH_HOST
destination_network_unreachable_Net(reply) ==
    LET version == probe_extract(reply, "version")
        code    == probe_extract(reply, "code")
        type    == probe_extract(reply, "type")
    IN  IF version = 4
        THEN type = ICMP_UNREACH /\ code = ICMP_UNREACH_NET
        ELSE type = ICMP6_DST_UNREACH /\ code = ICMP6_DST_UNREACH_ADDR

destination_network_unreachable(reply) ==
    LET version == probe_extract(reply, "version")
        code    == probe_extract(reply, "code")
        type    == probe_extract(reply, "type")
    IN  IF version = 4
        THEN type = ICMP_UNREACH /\ code = ICMP_UNREACH_HOST
        ELSE type = ICMP6_DST_UNREACH /\ code = ICMP6_DST_UNREACH_ADDR

destination_host_unreachable(reply) ==
    LET version == probe_extract(reply, "version")
        code    == probe_extract(reply, "code")
        type    == probe_extract(reply, "type")
    IN  IF version = 4
        THEN type = ICMP_UNREACH /\ code = ICMP_UNREACH_NET
        ELSE type = ICMP6_DST_UNREACH /\ code = ICMP6_DST_UNREACH_NOROUTE

destination_port_unreachable(reply) ==
    LET version == probe_extract(reply, "version")
        code    == probe_extract(reply, "code")
        type    == probe_extract(reply, "type")
    IN  IF version = 4
        THEN type = ICMP_UNREACH /\ code = ICMP_UNREACH_PORT
        ELSE type = ICMP6_DST_UNREACH /\ code = ICMP6_DST_UNREACH_NOPORT

destination_protocol_unreachable(reply) ==
    LET version == probe_extract(reply, "version")
        code    == probe_extract(reply, "code")
        type    == probe_extract(reply, "type")
    IN  IF version = 4
        THEN type = ICMP_UNREACH /\ code = ICMP_UNREACH_PROTOCOL
        ELSE type = ICMP6_PARAM_PROB /\ code = ICMP6_PARAMPROB_NEXTHEADER

ttl_exceeded(reply) ==
    LET version == probe_extract(reply, "version")
        code    == probe_extract(reply, "code")
        type    == probe_extract(reply, "type")
    IN  IF version = 4
        THEN type = ICMP_TIMXCEED /\ code = ICMP_TIMXCEED_INTRANS
        ELSE type = ICMP6_TIME_EXCEEDED /\ code = ICMP6_TIME_EXCEED_TRANSIT

fragment_reassembly_time_exceeded(reply) ==
    LET version == probe_extract(reply, "version")
        code    == probe_extract(reply, "code")
        type    == probe_extract(reply, "type")
    IN  IF version = 4
        THEN type = ICMP_TIMXCEED /\ code = ICMP_TIMXCEED_REASS
        ELSE type = ICMP6_TIME_EXCEEDED /\ code = ICMP6_TIME_EXCEED_REASSEMBLY

redirect(reply) ==
    LET version == probe_extract(reply, "version")
        code    == probe_extract(reply, "code")
        type    == probe_extract(reply, "type")
    IN  IF version = 4
        THEN type = ICMP_REDIRECT /\ code = ICMP_REDIRECT_NET
        ELSE type = ND_REDIRECT

\* a test of the IPv6 type alone, whatever the code
parameter_problem_AnyCode(reply) ==
    LET version == probe_extract(reply, "version")
        type    == probe_extract(reply, "type")
    IN  IF version = 4
        THEN type = ICMP_PARAMPROB
        ELSE type = ICMP6_PARAM_PROB

parameter_problem(reply) ==
    LET version == probe_extract(reply, "version")
        code    == probe_extract(reply, "code")
        type    == probe_extract(reply, "type")
    IN  IF version = 4
        THEN type = ICMP_PARAMPROB
        ELSE type = ICMP6_PARAM_PROB /\ (code = ICMP6_PARAMPROB_HEADER
                                         \/ code = ICMP6_PARAMPROB_OPTION)

\* if (probe_extract(reply, "src_ip", &discovered_addr))
\*     ret = (address_compare(dst_addr, &discovered_addr) == 0);
destination_reached(dst_addr, reply) ==
    IF reply.has_src_ip THEN dst_addr = reply.src_ip ELSE FALSE

\* a classifier that tests the ICMP error classes before the destination
ReplyOutcome_ErrorsFirst(dst_addr, reply) ==
    IF destination_network_unreachable(reply) THEN "PING_DST_NET_UNREACHABLE"
    ELSE IF destination_host_unreachable(reply) THEN "PING_DST_HOST_UNREACHABLE"
    ELSE IF destination_protocol_unreachable(reply) THEN "PING_DST_PROT_UNREACHABLE"
    ELSE IF destination_port_unreachable(reply) THEN "PING_DST_PORT_UNREACHABLE"
    ELSE IF ttl_exceeded(reply) THEN "PING_TTL_EXCEEDED_TRANSIT"
    ELSE IF fragment_reassembly_time_exceeded(reply) THEN "PING_TIME_EXCEEDED_REASSEMBLY"
    ELSE IF redirect(reply) THEN "PING_REDIRECT"
    ELSE IF parameter_problem(reply) THEN "PING_PARAMETER_PROBLEM"
    ELSE IF destination_reached(dst_addr, reply) THEN "PING_PROBE_REPLY"
    ELSE "PING_GEN_ERROR"

\* the type of the outcome event of a PROBE_REPLY: the if / else if chain
ReplyOutcome(dst_addr, reply) ==
    IF destination_reached(dst_addr, reply) THEN "PING_PROBE_REPLY"
    ELSE IF destination_network_unreachable(reply) THEN "PING_DST_NET_UNREACHABLE"
    ELSE IF destination_host_unreachable(reply) THEN "PING_DST_HOST_UNREACHABLE"
    ELSE IF destination_protocol_unreachable(reply) THEN "PING_DST_PROT_UNREACHABLE"
    ELSE IF destination_port_unreachable(reply) THEN "PING_DST_PORT_UNREACHABLE"
    ELSE IF ttl_exceeded(reply) THEN "PING_TTL_EXCEEDED_TRANSIT"
    ELSE IF fragment_reassembly_time_exceeded(reply) THEN "PING_TIME_EXCEEDED_REASSEMBLY"
    ELSE IF redirect(reply) THEN "PING_REDIRECT"
    ELSE IF parameter_problem(reply) THEN "PING_PARAMETER_PROBLEM"
    ELSE "PING_GEN_ERROR"

\* event_create(type, data, NULL, destructor): the type of the event, the
\* round-trip time of the (probe, reply) pair it carries, and the element of
\* data->probes that is its data when the data is a probe_t (0 otherwise)
Event(t, r) == [type |-> t, rtt |-> r, probe |-> 0]

\* event_create(PING_TIMEOUT, probe, NULL, (ELEMENT_FREE) probe_free) where
\* probe, the data of the PROBE_TIMEOUT event, is element p of data->probes
TimeoutEvent(p) == [type |-> "PING_TIMEOUT", rtt |-> 0, probe |-> p]

\* the destructor event_create attaches to an event of the caller
event_destructor(ping_event) ==
    IF ping_event.type = "PING_TIMEOUT" THEN "probe_free"
    ELSE IF ping_event.type \in {"PING_ALL_PROBES_SENT", "PING_WAIT"} THEN "NULL"
    ELSE "probe_reply_free"

\* a chain without its final else: nothing is raised for an unclassified reply
ReplyEvents_NoElse(dst_addr, reply) ==
    IF ReplyOutcome(dst_addr, reply) = "PING_GEN_ERROR"
    THEN <<>>
    ELSE <<Event(ReplyOutcome(dst_addr, reply), reply.rtt)>>

\* the events the PROBE_REPLY case raises with pt_raise_event: each branch of
\* the chain raises one event that carries the (probe, reply) pair
ReplyEvents(dst_addr, reply) ==
    <<Event(ReplyOutcome(dst_addr, reply), reply.rtt)>>

(***************************************************************************)
(* State.                                                                  *)
(***************************************************************************)
VARIABLES
    phase,            \* "start": no event delivered yet; "running";
                      \* "crashed": the process died in the handler
    opts,             \* the opts argument (ping_options_t *), NullOpts if absent
    network_timeout,  \* options_network_get_timeout()
    probe_skel,       \* the probe skeleton
    pdata,            \* *pdata: the ping_data_t of the instance, NullData if NULL
    inNetwork,        \* framework: indices (in data->probes) of the probes handed
                      \* to pt_send_probe that have no reply or timeout yet
    dispatched,       \* framework: number of successful pt_send_probe calls
    dispatchFailed,   \* some probe_dup / dynarray_push_element / pt_send_probe failed
    upstream,         \* the events raised with pt_raise_event, oldest first
    handled,          \* how many of them the caller's ping_handler has processed
    terminated,       \* number of pt_raise_terminated calls
    errors,           \* number of pt_raise_error calls
    numEvents,        \* number of events delivered to ping_loop_handler
    numTerminatedEvents, \* number of ALGORITHM_TERMINATED events among them
    released,         \* number of times a ping_data_t was released with free
    last              \* the last invocation of ping_loop_handler

vars == <<phase, opts, network_timeout, probe_skel, pdata, inNetwork, dispatched,
          dispatchFailed, upstream, handled, terminated, errors, numEvents,
          numTerminatedEvents, released, last>>

NullOpts == [valid |-> FALSE]
NullData == [valid |-> FALSE]

\* calloc(1, sizeof(ping_data_t)) and two empty dynarrays
ping_data_create ==
    [valid |-> TRUE, num_replies |-> 0, num_losses |-> 0,
     num_probes_in_flight |-> 0, probes |-> <<>>, rtt_results |-> <<>>]

\* the intervals, framework timeouts and skeleton delays explored (tenths of a second)
Intervals == {10, 20}
Timeouts == {10, 30}
SkelDelays == {DELAY_BEST_EFFORT, 5}

NoReply == [EchoReply("dst", 0) EXCEPT !.has_src_ip = FALSE]
\* what a failing step of a dispatch batch is: the at-th probe of the batch
\* fails in probe_dup, in dynarray_push_element or in pt_send_probe
NoFailure == [at |-> 0, kind |-> "none"]
Failures == {NoFailure} \cup [at : 1 .. MaxCount, kind : {"dup", "push", "send"}]

\* the outcomes of reading data->num_probes_in_flight through a NULL data
UBOutcomes == {"crash", "zero", "nonzero"}

MIN(a, b) == IF a < b THEN a ELSE b

Init ==
    /\ phase = "start"
    /\ opts \in {NullOpts} \cup
                [valid : {TRUE}, count : 0 .. MaxCount, interval : Intervals,
                 dst_addr : {"dst"}]
    /\ network_timeout \in Timeouts
    /\ probe_skel \in [delay : SkelDelays, obj : {0}]
    /\ pdata = NullData
    /\ inNetwork = {}
    /\ dispatched = 0
    /\ dispatchFailed = FALSE
    /\ upstream = <<>>
    /\ handled = 0
    /\ terminated = 0
    /\ errors = 0
    /\ numEvents = 0
    /\ numTerminatedEvents = 0
    /\ released = 0
    /\ last = [event |-> "NONE", ret |-> 0, outcome |-> "NONE", reply |-> NoReply,
               post |-> "none", to_send |-> 0, freed |-> FALSE]

(***************************************************************************)
(* Probe dispatcher.                                                       *)
(***************************************************************************)
\* a probe_dup that returns the skeleton itself
probe_dup_Alias(probes, skel) == skel

\* probe_dup(probe_skel): a copy of the skeleton in a fresh object; the
\* objects of data->probes are numbered from 1, the skeleton is object 0
probe_dup(probes, skel) == [skel EXCEPT !.obj = Len(probes) + 1]

\* a dispatcher that gives every clone the delay of the skeleton
send_ping_probe_NoStagger(probes, skel, i, fk) ==
    LET probe == probe_dup(probes, skel)
    IN  IF fk = "dup" THEN [probes |-> probes, skel |-> skel, sent |-> FALSE, ret |-> FALSE]
        ELSE IF fk = "push"
             THEN [probes |-> probes, skel |-> skel, sent |-> FALSE, ret |-> FALSE]
        ELSE IF fk = "send"
             THEN [probes |-> Append(probes, probe), skel |-> skel,
                   sent |-> FALSE, ret |-> FALSE]
             ELSE [probes |-> Append(probes, probe), skel |-> skel,
                   sent |-> TRUE, ret |-> TRUE]

\* send_ping_probe(loop, ping_data, probe_skel, i); fk tells which call fails.
\* The result is the new data->probes, the skeleton after the call, whether
\* the clone reached pt_send_probe successfully, and the value returned.
\* probe_set_delay writes the object probe points to: the skeleton changes
\* only if probe is the skeleton's own object.
send_ping_probe(probes, skel, i, fk) ==
    LET dup   == probe_dup(probes, skel)
        probe == IF dup.delay # DELAY_BEST_EFFORT
                 THEN [dup EXCEPT !.delay = i * skel.delay]
                 ELSE dup
        skel2 == IF probe.obj = skel.obj THEN probe ELSE skel
    IN  IF fk = "dup" THEN [probes |-> probes, skel |-> skel, sent |-> FALSE, ret |-> FALSE]
        ELSE IF fk = "push"
             THEN [probes |-> probes, skel |-> skel2, sent |-> FALSE, ret |-> FALSE]
        ELSE IF fk = "send"
             THEN [probes |-> Append(probes, probe), skel |-> skel2,
                   sent |-> FALSE, ret |-> FALSE]
             ELSE [probes |-> Append(probes, probe), skel |-> skel2,
                   sent |-> TRUE, ret |-> TRUE]

\* send_ping_probes(loop, ping_data, probe_skel, num_probes): the loop from
\* probe i (0-based) on; newly lists the indices handed to pt_send_probe
RECURSIVE send_ping_probes_from(_, _, _, _, _, _)
send_ping_probes_from(i, probes, newly, skel, num_probes, f) ==
    IF i < num_probes
    THEN LET r == send_ping_probe(probes, skel, i + 1,
                                  IF f.at = i + 1 THEN f.kind ELSE "none")
             n == IF r.sent THEN newly \cup {Len(r.probes)} ELSE newly
         IN  IF ~r.ret
             THEN [probes |-> r.probes, skel |-> r.skel, newly |-> n, ret |-> FALSE]
             ELSE send_ping_probes_from(i + 1, r.probes, n, r.skel, num_probes, f)
    ELSE [probes |-> probes, skel |-> skel, newly |-> newly, ret |-> TRUE]

\* a loop that starts at i = 1 and sends one probe less
send_ping_probes_SkipFirst(probes, skel, num_probes, f) ==
    send_ping_probes_from(1, probes, {}, skel, num_probes, f)

send_ping_probes(probes, skel, num_probes, f) ==
    send_ping_probes_from(0, probes, {}, skel, num_probes, f)

(***************************************************************************)
(* ping_loop_handler.                                                      *)
(***************************************************************************)
\* freed: event_free(event) was called, which both exits of the handler do
Last(e, ret, outcome, reply, post, n) ==
    [event |-> e, ret |-> ret, outcome |-> outcome, reply |-> reply,
     post |-> post, to_send |-> n, freed |-> (post # "crash")]

\* a test that forgets the cap on the probes issued
CanSend_NoCap(data, n) == n > 0

\* num_probes_to_send > 0 &&
\*     (data->num_replies + data->num_probes_in_flight != options->count)
CanSend(data, n) ==
    n > 0 /\ data.num_replies + data.num_probes_in_flight # opts.count

\* a handler that takes every probe of data->probes to be in flight
AfterDispatch_CountsAll(data, probes, n) ==
    [data EXCEPT !.probes = probes,
                 !.num_probes_in_flight = Len(probes)]

\* the state after send_ping_probes(loop, data, probe_skel, num_probes_to_send);
\* data->num_probes_in_flight += (size_t)num_probes_to_send;
\* probes is data->probes as send_ping_probes left it
AfterDispatch(data, probes, n) ==
    [data EXCEPT !.probes = probes,
                 !.num_probes_in_flight = @ + n]

\* The steps after the switch.  data is the local variable data (NullData
\* when the case of the switch did not set it), pd the value of *pdata and up
\* the raised events after the switch, net the framework's outstanding
\* probes, n the value of num_probes_to_send.  f is the failure of the
\* dispatch, if one happens; ub the outcome of the read of
\* data->num_probes_in_flight when data is NULL.
PostEvent(e, outcome, reply, data, pd, net, up, n, f, ub) ==
    IF ~data.valid
    THEN \* n = 0 here: the test goes to its else branch and reads through NULL
         /\ pdata' = pd
         /\ inNetwork' = net
         /\ UNCHANGED <<probe_skel, dispatched, dispatchFailed>>
         /\ CASE ub = "crash" ->
                    /\ phase' = "crashed"
                    /\ upstream' = up
                    /\ terminated' = terminated
                    /\ last' = Last(e, -1, outcome, reply, "crash", n)
              [] ub = "zero" ->
                    /\ phase' = phase
                    /\ upstream' = Append(up, Event("PING_ALL_PROBES_SENT", 0))
                    /\ terminated' = terminated + 1
                    /\ last' = Last(e, 0, outcome, reply, "all_sent", n)
              [] ub = "nonzero" ->
                    /\ phase' = phase
                    /\ upstream' = Append(up, Event("PING_WAIT", 0))
                    /\ terminated' = terminated
                    /\ last' = Last(e, 0, outcome, reply, "wait", n)
    ELSE /\ phase' = "running"
         /\ IF CanSend(data, n)
            THEN LET r == send_ping_probes(data.probes, probe_skel, n, f)
                 IN  /\ pdata' = AfterDispatch(data, r.probes, n)
                     /\ probe_skel' = r.skel
                     /\ inNetwork' = net \cup r.newly
                     /\ dispatched' = dispatched + Cardinality(r.newly)
                     /\ dispatchFailed' = (dispatchFailed \/ ~r.ret)
                     /\ upstream' = up
                     /\ terminated' = terminated
                     /\ last' = Last(e, 0, outcome, reply, "dispatch", n)
            ELSE /\ pdata' = data
                 /\ inNetwork' = net
                 /\ UNCHANGED <<probe_skel, dispatched, dispatchFailed>>
                 /\ IF data.num_probes_in_flight = 0
                    THEN /\ upstream' = Append(up, Event("PING_ALL_PROBES_SENT", 0))
                         /\ terminated' = terminated + 1
                         /\ last' = Last(e, 0, outcome, reply, "all_sent", n)
                    ELSE /\ upstream' = Append(up, Event("PING_WAIT", 0))
                         /\ terminated' = terminated
                         /\ last' = Last(e, 0, outcome, reply, "wait", n)

\* a failure path that returns without pt_raise_error(loop)
Failure_NoRaise(e) ==
    /\ phase' = "running"
    /\ errors' = errors
    /\ last' = Last(e, EINVAL, "NONE", NoReply, "none", 0)
    /\ UNCHANGED <<pdata, probe_skel, inNetwork, dispatched, dispatchFailed,
                   upstream, terminated>>

\* FAILURE: event_free(event); pt_raise_error(loop); return EINVAL;
\* *pdata is left as it is: the caller has to free the data
Failure(e) ==
    /\ phase' = "running"
    /\ errors' = errors + 1
    /\ last' = Last(e, EINVAL, "NONE", NoReply, "none", 0)
    /\ UNCHANGED <<pdata, probe_skel, inNetwork, dispatched, dispatchFailed,
                   upstream, terminated>>

Delivered == numEvents' = numEvents + 1

\* a refill of two probes at a time
NeedMore_Pair(count, num_replies) == IF count - num_replies > 0 THEN 2 ELSE 0

\* num_probes_to_send = (int)(options->count - data->num_replies) > 0;
NeedMore(count, num_replies) == IF count - num_replies > 0 THEN 1 ELSE 0

\* a case that forgets ++(data->num_replies)
TimeoutCase_NoReplyCount(data) ==
    [data EXCEPT !.num_losses = @ + 1,
                 !.num_probes_in_flight = @ - 1]

\* case PROBE_TIMEOUT: ++(data->num_replies); ++(data->num_losses);
\* --(data->num_probes_in_flight);
TimeoutCase(data) ==
    [data EXCEPT !.num_replies = @ + 1,
                 !.num_losses = @ + 1,
                 !.num_probes_in_flight = @ - 1]

\* case PROBE_REPLY: ++(data->num_replies); --(data->num_probes_in_flight);
ReplyCase(data) ==
    [data EXCEPT !.num_replies = @ + 1,
                 !.num_probes_in_flight = @ - 1]

\* a first burst that ignores the framework timeout
InitialBurst_NoCap(timeout, interval, count) == count

\* MIN((int)(options_network_get_timeout() / options->interval), options->count)
InitialBurst(timeout, interval, count) == MIN(timeout \div interval, count)

\* case ALGORITHM_INIT
HandleInit(alloc_ok, f) ==
    /\ phase = "start"
    /\ numEvents < MaxEvents
    /\ Delivered
    /\ UNCHANGED <<opts, network_timeout, handled, numTerminatedEvents, released>>
    /\ IF ~opts.valid \/ ~alloc_ok
       THEN Failure("ALGORITHM_INIT")
       ELSE /\ errors' = errors
            /\ PostEvent("ALGORITHM_INIT", "NONE", NoReply,
                         ping_data_create, ping_data_create, inNetwork, upstream,
                         InitialBurst(network_timeout, opts.interval, opts.count),
                         f, "crash")

\* case PROBE_REPLY: the framework delivers the reply paired with probe p
HandleProbeReply(p, reply, f) ==
    /\ phase = "running"
    /\ pdata.valid
    /\ p \in inNetwork
    /\ numEvents < MaxEvents
    /\ Delivered
    /\ UNCHANGED <<opts, network_timeout, handled, numTerminatedEvents, released, errors>>
    /\ LET data == ReplyCase(pdata)
           raised == ReplyEvents(opts.dst_addr, reply)
           outcome == IF raised = <<>> THEN "NONE" ELSE raised[Len(raised)].type
       IN  PostEvent("PROBE_REPLY", outcome, reply, data, data, inNetwork \ {p},
                     upstream \o raised,
                     NeedMore(opts.count, data.num_replies), f, "crash")

\* case PROBE_TIMEOUT: the framework reports that probe p got no reply
HandleProbeTimeout(p, f) ==
    /\ phase = "running"
    /\ pdata.valid
    /\ p \in inNetwork
    /\ numEvents < MaxEvents
    /\ Delivered
    /\ UNCHANGED <<opts, network_timeout, handled, numTerminatedEvents, released, errors>>
    /\ LET data == TimeoutCase(pdata)
       IN  PostEvent("PROBE_TIMEOUT", "PING_TIMEOUT", NoReply, data, data,
                     inNetwork \ {p},
                     Append(upstream, TimeoutEvent(p)),
                     NeedMore(opts.count, data.num_replies), f, "crash")

\* the framework stops delivering replies once the instance is torn down
MaxTerminatedEvents == 2

\* ping_data_free(ping_data): the number of ping_data_t it releases
ping_data_free(ping_data) == IF ping_data.valid THEN 1 ELSE 0

\* a case that frees the state and leaves *pdata pointing to it
TerminatedCase_NoClear(pd) == pd

\* case ALGORITHM_TERMINATED: the value of *pdata after
\* ping_data_free(*pdata); *pdata = NULL;
TerminatedCase(pd) == NullData

\* case ALGORITHM_TERMINATED: ping_data_free(*pdata); *pdata = NULL; break;
\* the local variable data is still NULL after the switch
HandleTerminated(ub) ==
    /\ phase = "running"
    /\ numEvents < MaxEvents
    /\ numTerminatedEvents < MaxTerminatedEvents
    /\ Delivered
    /\ numTerminatedEvents' = numTerminatedEvents + 1
    /\ released' = released + ping_data_free(pdata)
    /\ UNCHANGED <<opts, network_timeout, handled, errors>>
    /\ PostEvent("ALGORITHM_TERMINATED", "NONE", NoReply, NullData,
                 TerminatedCase(pdata), {}, upstream, 0, NoFailure, ub)

\* a case ALGORITHM_ERROR that frees the state before it fails
HandleError_Frees ==
    /\ phase = "running"
    /\ numEvents < MaxEvents
    /\ Delivered
    /\ released' = released + ping_data_free(pdata)
    /\ pdata' = NullData
    /\ phase' = "running"
    /\ errors' = errors + 1
    /\ last' = Last("ALGORITHM_ERROR", EINVAL, "NONE", NoReply, "none", 0)
    /\ UNCHANGED <<opts, network_timeout, handled, numTerminatedEvents, probe_skel,
                   inNetwork, dispatched, dispatchFailed, upstream, terminated>>

\* case ALGORITHM_ERROR: goto FAILURE;
HandleError ==
    /\ phase = "running"
    /\ numEvents < MaxEvents
    /\ Delivered
    /\ UNCHANGED <<opts, network_timeout, handled, numTerminatedEvents, released>>
    /\ Failure("ALGORITHM_ERROR")

\* default: break;  (an event of any other type); data is NULL after the switch
HandleOther(ub) ==
    /\ phase = "running"
    /\ numEvents < MaxEvents
    /\ Delivered
    /\ UNCHANGED <<opts, network_timeout, handled, numTerminatedEvents, released, errors>>
    /\ PostEvent("OTHER", "NONE", NoReply, NullData, pdata, inNetwork,
                 upstream, 0, NoFailure, ub)

(***************************************************************************)
(* The caller's handler of the raised events.                              *)
(***************************************************************************)
\* ping_handler(loop, ping_event, ping_options, ping_data): the next raised
\* event; a PING_PROBE_REPLY pushes delay_get(probe, reply) to rtt_results
\* a handler that records a sample for every event that carries a reply
push_rtt_AnyReply(rtt_results, ping_event) ==
    IF ping_event.type \notin {"PING_TIMEOUT", "PING_ALL_PROBES_SENT", "PING_WAIT"}
    THEN Append(rtt_results, ping_event.rtt)
    ELSE rtt_results

\* the switch of ping_handler on ping_event->type, as far as rtt_results goes
push_rtt(rtt_results, ping_event) ==
    IF ping_event.type = "PING_PROBE_REPLY"
    THEN Append(rtt_results, ping_event.rtt)
    ELSE rtt_results

ping_handler ==
    /\ phase = "running"
    /\ pdata.valid
    /\ handled < Len(upstream)
    /\ handled' = handled + 1
    /\ pdata' = [pdata EXCEPT !.rtt_results = push_rtt(@, upstream[handled + 1])]
    /\ UNCHANGED <<phase, opts, network_timeout, probe_skel, inNetwork, dispatched,
                   dispatchFailed, upstream, terminated, errors, numEvents,
                   numTerminatedEvents, released, last>>

\* event_free(ping_event) of the events the caller has handled: a handled
\* event is freed when its handler is left, and freeing an event calls its
\* destructor on its data.  The elements of data->probes released that way.
FreedByEvents ==
    {upstream[i].probe :
         i \in {k \in 1 .. handled : event_destructor(upstream[k]) = "probe_free"}}

Next ==
    \/ \E alloc_ok \in BOOLEAN, f \in Failures : HandleInit(alloc_ok, f)
    \/ \E p \in inNetwork, reply \in LoopReplies, f \in Failures :
           HandleProbeReply(p, reply, f)
    \/ \E p \in inNetwork, f \in Failures : HandleProbeTimeout(p, f)
    \/ \E ub \in UBOutcomes : HandleTerminated(ub)
    \/ HandleError
    \/ \E ub \in UBOutcomes : HandleOther(ub)
    \/ ping_handler

Spec == Init /\ [][Next]_vars

(***************************************************************************)
(* The classification of one reply: an instance with count = 1 whose only  *)
(* probe is in flight receives any reply of AllReplies.                    *)
(***************************************************************************)
InitClassify ==
    /\ phase = "running"
    /\ opts = [valid |-> TRUE, count |-> 1, interval |-> 10, dst_addr |-> "dst"]
    /\ network_timeout = 30
    /\ probe_skel = [delay |-> DELAY_BEST_EFFORT, obj |-> 0]
    /\ pdata = [ping_data_create EXCEPT
                  !.num_probes_in_flight = 1,
                  !.probes = <<[delay |-> DELAY_BEST_EFFORT, obj |-> 1]>>]
    /\ inNetwork = {1}
    /\ dispatched = 1
    /\ dispatchFailed = FALSE
    /\ upstream = <<>>
    /\ handled = 0
    /\ terminated = 0
    /\ errors = 0
    /\ numEvents = 1
    /\ numTerminatedEvents = 0
    /\ released = 0
    /\ last = Last("ALGORITHM_INIT", 0, "NONE", NoReply, "dispatch", 1)

NextClassify ==
    \E p \in inNetwork, reply \in AllReplies : HandleProbeReply(p, reply, NoFailure)

SpecClassify == InitClassify /\ [][NextClassify]_vars

(***************************************************************************)
(* Properties.                                                             *)
(***************************************************************************)
PerProbeOutcomes ==
    {"PING_PROBE_REPLY", "PING_DST_NET_UNREACHABLE", "PING_DST_HOST_UNREACHABLE",
     "PING_DST_PROT_UNREACHABLE", "PING_DST_PORT_UNREACHABLE",
     "PING_TTL_EXCEEDED_TRANSIT", "PING_TIME_EXCEEDED_REASSEMBLY",
     "PING_REDIRECT", "PING_PARAMETER_PROBLEM", "PING_GEN_ERROR", "PING_TIMEOUT"}

\* the number of events of up whose type is in types
NumOf(up, types) == Cardinality({i \in 1 .. Len(up) : up[i].type \in types})

ProbeEvents == {"ALGORITHM_INIT", "PROBE_REPLY", "PROBE_TIMEOUT"}

\* C1: whenever the state exists, num_replies + num_probes_in_flight <= count,
\* num_probes_in_flight >= 0 and hence num_replies <= count (replies and
\* timeouts concern probes handed to the framework and not yet accounted for).
C1_CountersBounded ==
    pdata.valid =>
        /\ pdata.num_replies + pdata.num_probes_in_flight <= opts.count
        /\ pdata.num_probes_in_flight >= 0
        /\ pdata.num_replies <= opts.count

\* a reply was handled, a probe was sent in its place and the cap is reached
C1_Witness ==
    /\ pdata.valid
    /\ last.event = "PROBE_REPLY"
    /\ last.post = "dispatch"
    /\ pdata.num_replies >= 1
    /\ pdata.num_replies + pdata.num_probes_in_flight = opts.count

C3_AllProbesSentWhenAccounted ==
    (last.event \in ProbeEvents /\ last.post = "all_sent") =>
        /\ pdata.valid
        /\ pdata.num_replies = opts.count
        /\ pdata.num_probes_in_flight = 0

\* C4: when no dispatch failed and the instance was not cancelled, the
\* handler that raises AllProbesSent and framework-termination does so with
\* exactly count probes handed to pt_send_probe.
C4_TerminatesAfterCountProbes ==
    (/\ last.event \in ProbeEvents
     /\ last.post = "all_sent"
     /\ ~dispatchFailed
     /\ numTerminatedEvents = 0) =>
        /\ terminated >= 1
        /\ dispatched = opts.count

\* C5: a step that handles a PROBE_REPLY or a PROBE_TIMEOUT raises exactly
\* one per-probe outcome event.
C5_OneOutcomePerInput ==
    [][(numEvents' = numEvents + 1 /\ last'.event \in {"PROBE_REPLY", "PROBE_TIMEOUT"})
        => NumOf(upstream', PerProbeOutcomes) = NumOf(upstream, PerProbeOutcomes) + 1]_vars

\* an unclassified reply was the last of the run: GenError, then AllProbesSent
C5_Witness ==
    /\ last.event = "PROBE_REPLY"
    /\ last.outcome = "PING_GEN_ERROR"
    /\ last.post = "all_sent"
    /\ NumOf(upstream, {"PING_TIMEOUT"}) >= 1

AtEventBoundary == pdata.valid /\ handled = Len(upstream)

\* C6 as stated: at every event boundary |rtt_results| = num_replies - num_losses.
C6_RttCountAsStated ==
    AtEventBoundary =>
        Len(pdata.rtt_results) = pdata.num_replies - pdata.num_losses

\* C6 as amended: at every event boundary |rtt_results| is num_replies -
\* num_losses less the number of replies that were not classified ProbeReply.
C6_RttCount ==
    AtEventBoundary =>
        Len(pdata.rtt_results) =
            pdata.num_replies - pdata.num_losses
              - NumOf(upstream, PerProbeOutcomes \ {"PING_PROBE_REPLY", "PING_TIMEOUT"})

\* a destination reply and an ICMP error reply were both handled
C6_Witness ==
    /\ AtEventBoundary
    /\ Len(pdata.rtt_results) = 1
    /\ pdata.num_replies - pdata.num_losses = 2

\* the decision table of the classifier
TableOutcome(version, type, code) ==
    IF version = 4
    THEN CASE type = ICMP_UNREACH /\ code = ICMP_UNREACH_HOST -> "PING_DST_NET_UNREACHABLE"
           [] type = ICMP_UNREACH /\ code = ICMP_UNREACH_NET -> "PING_DST_HOST_UNREACHABLE"
           [] type = ICMP_UNREACH /\ code = ICMP_UNREACH_PORT -> "PING_DST_PORT_UNREACHABLE"
           [] type = ICMP_UNREACH /\ code = ICMP_UNREACH_PROTOCOL -> "PING_DST_PROT_UNREACHABLE"
           [] type = ICMP_TIMXCEED /\ code = ICMP_TIMXCEED_INTRANS -> "PING_TTL_EXCEEDED_TRANSIT"
           [] type = ICMP_TIMXCEED /\ code = ICMP_TIMXCEED_REASS -> "PING_TIME_EXCEEDED_REASSEMBLY"
           [] type = ICMP_REDIRECT /\ code = ICMP_REDIRECT_NET -> "PING_REDIRECT"
           [] type = ICMP_PARAMPROB -> "PING_PARAMETER_PROBLEM"
           [] OTHER -> "PING_GEN_ERROR"
    ELSE CASE type = ICMP6_DST_UNREACH /\ code = ICMP6_DST_UNREACH_ADDR -> "PING_DST_NET_UNREACHABLE"
           [] type = ICMP6_DST_UNREACH /\ code = ICMP6_DST_UNREACH_NOROUTE -> "PING_DST_HOST_UNREACHABLE"
           [] type = ICMP6_DST_UNREACH /\ code = ICMP6_DST_UNREACH_NOPORT -> "PING_DST_PORT_UNREACHABLE"
           [] type = ICMP6_PARAM_PROB /\ code = ICMP6_PARAMPROB_NEXTHEADER -> "PING_DST_PROT_UNREACHABLE"
           [] type = ICMP6_TIME_EXCEEDED /\ code = ICMP6_TIME_EXCEED_TRANSIT -> "PING_TTL_EXCEEDED_TRANSIT"
           [] type = ICMP6_TIME_EXCEEDED /\ code = ICMP6_TIME_EXCEED_REASSEMBLY -> "PING_TIME_EXCEEDED_REASSEMBLY"
           [] type = ND_REDIRECT -> "PING_REDIRECT"
           [] type = ICMP6_PARAM_PROB /\ code \in {ICMP6_PARAMPROB_HEADER, ICMP6_PARAMPROB_OPTION}
                -> "PING_PARAMETER_PROBLEM"
           [] OTHER -> "PING_GEN_ERROR"

FromDestination(reply) == reply.has_src_ip /\ reply.src_ip = opts.dst_addr
AllExtracted(reply) == reply.has_version /\ reply.has_type /\ reply.has_code

\* C7: a reply of IP version 4 or 6 whose source is not the destination and
\* whose version, type and code are extracted gets the outcome of the decision
\* table, and GenError when the table has no row for it.
C7_DecisionTable ==
    (/\ last.event = "PROBE_REPLY"
     /\ ~FromDestination(last.reply)
     /\ AllExtracted(last.reply)
     /\ last.reply.version \in {4, 6}) =>
        last.outcome = TableOutcome(last.reply.version, last.reply.type, last.reply.code)

\* an IPv4 UNREACH / UNREACH_HOST reply from a router was reported as
\* DstNetUnreachable
C7_Witness ==
    /\ last.event = "PROBE_REPLY"
    /\ ~FromDestination(last.reply)
    /\ AllExtracted(last.reply)
    /\ last.reply.version = 4
    /\ last.reply.type = ICMP_UNREACH
    /\ last.reply.code = ICMP_UNREACH_HOST
    /\ last.outcome = "PING_DST_NET_UNREACHABLE"

\* C8: a reply whose extracted source is the destination is reported as
\* ProbeReply, whatever its version, type and code.
C8_DestinationPrecedence ==
    (last.event = "PROBE_REPLY" /\ FromDestination(last.reply)) =>
        last.outcome = "PING_PROBE_REPLY"

\* an IPv4 REDIRECT / REDIRECT_NET from the destination was reported as ProbeReply
C8_Witness ==
    /\ last.event = "PROBE_REPLY"
    /\ FromDestination(last.reply)
    /\ AllExtracted(last.reply)
    /\ last.reply.version = 4
    /\ last.reply.type = ICMP_REDIRECT
    /\ last.reply.code = ICMP_REDIRECT_NET
    /\ last.outcome = "PING_PROBE_REPLY"

\* C9: a reply that is not from the destination and of which version, type or
\* code cannot be extracted is reported as GenError.
C9_ExtractionFailureIsGenError ==
    (/\ last.event = "PROBE_REPLY"
     /\ ~FromDestination(last.reply)
     /\ ~AllExtracted(last.reply)) =>
        last.outcome = "PING_GEN_ERROR"

\* C10: the handler of an event of an unrecognized type changes neither the
\* state nor the raised events, dispatches nothing, raises no termination and
\* does not crash.
C10_UnknownEventIgnored ==
    [][(numEvents' = numEvents + 1 /\ last'.event = "OTHER") =>
        /\ pdata' = pdata
        /\ upstream' = upstream
        /\ dispatched' = dispatched
        /\ terminated' = terminated
        /\ phase' = phase]_vars

\* C11: the handling of ALGORITHM_TERMINATED clears the caller's state pointer
\* and performs none of the post-event steps: nothing is dispatched, no
\* AllProbesSent and no Wait is raised, framework-termination is not
\* signalled, and the handler returns normally.
C11_TerminatedReturnsAtOnce ==
    [][(Delivered /\ last'.event = "ALGORITHM_TERMINATED") =>
          /\ ~pdata'.valid
          /\ upstream' = upstream
          /\ terminated' = terminated
          /\ dispatched' = dispatched
          /\ phase' = phase]_vars

\* C12: the state is released at most once in a trace, and the handling of
\* ALGORITHM_TERMINATED when the state pointer is already NULL releases
\* nothing and leaves the pointer NULL.
C12_TeardownIdempotent ==
    /\ [](released <= 1)
    /\ [][(Delivered /\ last'.event = "ALGORITHM_TERMINATED" /\ ~pdata.valid) =>
             (released' = released /\ ~pdata'.valid)]_vars

\* a second ALGORITHM_TERMINATED was handled after the one that freed the state
C12_Witness ==
    /\ last.event = "ALGORITHM_TERMINATED"
    /\ numTerminatedEvents = 2
    /\ released = 1
    /\ ~pdata.valid

\* a step that takes the failure path on a fatal error: ALGORITHM_ERROR
\* delivered to an initialised instance, or ALGORITHM_INIT with options whose
\* allocation of the state fails
FatalErrorStep ==
    /\ Delivered
    /\ \/ last'.event = "ALGORITHM_ERROR" /\ pdata.valid
       \/ last'.event = "ALGORITHM_INIT" /\ opts.valid /\ ~pdata'.valid

\* C13 as stated: on a fatal error the handler raises the framework error,
\* the state is freed, the counters are not modified, no probe is dispatched
\* and the handler returns EINVAL.
C13_FatalErrorFreesState ==
    [][FatalErrorStep =>
          /\ errors' = errors + 1
          /\ ~pdata'.valid
          /\ released' = released + ping_data_free(pdata)
          /\ dispatched' = dispatched
          /\ last'.ret = EINVAL]_vars

\* C13: on a fatal error the handler raises the framework error and returns
\* EINVAL; no probe is dispatched, no event is raised, and the state is
\* neither freed nor modified: the caller's pointer keeps pointing to it.
C13_FatalErrorKeepsState ==
    [][FatalErrorStep =>
          /\ errors' = errors + 1
          /\ pdata' = pdata
          /\ released' = released
          /\ dispatched' = dispatched
          /\ inNetwork' = inNetwork
          /\ upstream' = upstream
          /\ last'.ret = EINVAL]_vars

\* ALGORITHM_ERROR was handled by an instance that had counted a reply
C13_Witness ==
    /\ last.event = "ALGORITHM_ERROR"
    /\ last.ret = EINVAL
    /\ errors = 1
    /\ pdata.valid
    /\ pdata.num_replies >= 1
    /\ released = 0

\* C14: ALGORITHM_INIT with absent options returns EINVAL: no state is
\* allocated, the caller's state pointer is unchanged, no probe is dispatched,
\* no event is raised, the framework error is raised and the handled event
\* is released.
C14_InitWithoutOptions ==
    [][(Delivered /\ last'.event = "ALGORITHM_INIT" /\ ~opts.valid) =>
          /\ last'.ret = EINVAL
          /\ pdata' = pdata
          /\ ~pdata'.valid
          /\ dispatched' = dispatched
          /\ inNetwork' = inNetwork
          /\ upstream' = upstream
          /\ errors' = errors + 1
          /\ last'.freed]_vars

\* ALGORITHM_INIT without options was handled
C14_Witness ==
    /\ last.event = "ALGORITHM_INIT"
    /\ ~opts.valid
    /\ last.ret = EINVAL
    /\ errors = 1
    /\ ~pdata.valid

\* a step of the handler that ran the dispatch of the post-event step
DispatchStep == Delivered /\ last'.post = "dispatch"

\* num_probes_in_flight when the dispatch starts: 0 after ping_data_create,
\* one less than before after the case of a reply or of a timeout
InFlightBeforeDispatch ==
    IF last'.event = "ALGORITHM_INIT" THEN 0 ELSE pdata.num_probes_in_flight - 1

\* the number of elements of data->probes when the dispatch starts
ProbesBeforeDispatch ==
    IF last'.event = "ALGORITHM_INIT" THEN 0 ELSE Len(pdata.probes)

\* C15: every dispatch (initial burst or refill) increases
\* num_probes_in_flight by exactly the number of probes that
\* send_ping_probes sent, also when a clone or a send fails part-way.
C15_InFlightCountsDispatched ==
    [][DispatchStep =>
          pdata'.num_probes_in_flight - InFlightBeforeDispatch
              = dispatched' - dispatched]_vars

\* C16: in a dispatch from a skeleton of delay d other than BEST_EFFORT the
\* i-th clone of the batch (from 1) has delay i * d; when the delay of the
\* skeleton is BEST_EFFORT the delay of the clone stays BEST_EFFORT.
C16_StaggeredDelays ==
    [][DispatchStep =>
          \A j \in ProbesBeforeDispatch + 1 .. Len(pdata'.probes) :
              pdata'.probes[j].delay =
                  IF probe_skel.delay = DELAY_BEST_EFFORT
                  THEN DELAY_BEST_EFFORT
                  ELSE (j - ProbesBeforeDispatch) * probe_skel.delay]_vars

\* an initial burst of two probes from a skeleton whose delay is 5
C16_Witness ==
    /\ last.event = "ALGORITHM_INIT"
    /\ last.post = "dispatch"
    /\ last.to_send = 2
    /\ probe_skel.delay = 5
    /\ Len(pdata.probes) = 2
    /\ pdata.probes[1].delay = 5
    /\ pdata.probes[2].delay = 10

\* C17: the skeleton is never modified by any step, and the probes handed to
\* the framework are objects other than the skeleton and distinct from each
\* other.
C17_SkeletonUnchanged ==
    /\ [][probe_skel' = probe_skel]_vars
    /\ [](pdata.valid =>
            \A j \in 1 .. Len(pdata.probes) :
                /\ pdata.probes[j].obj # probe_skel.obj
                /\ \A k \in 1 .. Len(pdata.probes) :
                       pdata.probes[j].obj = pdata.probes[k].obj => j = k)

\* two probes were sent from a skeleton with a delay, one of them in a refill
C17_Witness ==
    /\ last.event \in {"PROBE_REPLY", "PROBE_TIMEOUT"}
    /\ last.post = "dispatch"
    /\ probe_skel.delay = 5
    /\ pdata.valid
    /\ Len(pdata.probes) = 2
    /\ dispatched = 2

C19_LossesAtMostReplies ==
    /\ [](pdata.valid => pdata.num_losses <= pdata.num_replies)
    /\ [][(pdata.valid /\ pdata'.valid /\ pdata'.num_losses # pdata.num_losses) =>
             /\ Delivered
             /\ last'.event = "PROBE_TIMEOUT"
             /\ pdata'.num_losses = pdata.num_losses + 1
             /\ pdata'.num_replies = pdata.num_replies + 1]_vars

\* a reply was handled after a timeout: a loss and a reply that is no loss
C19_Witness ==
    /\ last.event = "PROBE_REPLY"
    /\ pdata.valid
    /\ pdata.num_losses = 1
    /\ pdata.num_replies = 2

\* C20: ALGORITHM_INIT with options and a successful allocation sets
\* num_probes_in_flight to min(floor(timeout / interval), count) and
\* dispatches that many probes (all of them unless a clone or a send fails);
\* with count = 0 nothing is dispatched, AllProbesSent is raised and
\* framework-termination is signalled in the same step.
C20_InitialBurst ==
    [][(Delivered /\ last'.event = "ALGORITHM_INIT" /\ opts.valid /\ pdata'.valid) =>
          LET q == CHOOSE k \in 0 .. network_timeout :
                       /\ k * opts.interval <= network_timeout
                       /\ (k + 1) * opts.interval > network_timeout
              n == IF q < opts.count THEN q ELSE opts.count
          IN  /\ last'.to_send = n
              /\ pdata'.num_probes_in_flight = n
              /\ dispatched' <= n
              /\ ~dispatchFailed' => dispatched' = n
              /\ opts.count = 0 =>
                     /\ dispatched' = 0
                     /\ upstream' = <<Event("PING_ALL_PROBES_SENT", 0)>>
                     /\ terminated' = 1]_vars

\* the cap by the timeout applies and the division rounds down: timeout 30,
\* interval 20, count 2 dispatch one probe
C20_Witness ==
    /\ last.event = "ALGORITHM_INIT"
    /\ opts.valid
    /\ opts.count = 2
    /\ opts.interval = 20
    /\ network_timeout = 30
    /\ pdata.valid
    /\ pdata.num_probes_in_flight = 1
    /\ dispatched = 1

\* a step that handled a PROBE_REPLY or a PROBE_TIMEOUT
RefillStep == Delivered /\ last'.event \in {"PROBE_REPLY", "PROBE_TIMEOUT"}

\* C21: after a PROBE_REPLY or PROBE_TIMEOUT the handler dispatches at most
\* one probe; it runs the dispatch of one probe iff count - num_replies > 0
\* and num_replies + num_probes_in_flight < count (counters after the case of
\* the event), and that probe is sent unless its clone or its send fails.
C21_RefillOneAtATime ==
    [][RefillStep =>
          LET replies  == pdata'.num_replies
              inflight == pdata.num_probes_in_flight - 1
              wanted   == opts.count - replies > 0 /\ replies + inflight < opts.count
          IN  /\ replies = pdata.num_replies + 1
              /\ dispatched' - dispatched \in {0, 1}
              /\ Len(pdata'.probes) - Len(pdata.probes) \in {0, 1}
              /\ (last'.post = "dispatch") <=> wanted
              /\ wanted => last'.to_send = 1
              /\ wanted => pdata'.num_probes_in_flight = inflight + 1
              /\ (wanted /\ ~dispatchFailed') => dispatched' = dispatched + 1
              /\ ~wanted => (dispatched' = dispatched
                             /\ pdata'.num_probes_in_flight = inflight)]_vars

\* a timeout was handled and one probe was sent in its place
C21_Witness ==
    /\ last.event = "PROBE_TIMEOUT"
    /\ last.post = "dispatch"
    /\ last.to_send = 1
    /\ ~dispatchFailed
    /\ dispatched = 2
    /\ pdata.num_replies = 1
    /\ pdata.num_probes_in_flight = 1

\* a step of the handler that reached the post-event step
PostEventStep == Delivered /\ last'.post # "none"

\* what the post-event step did is one of dispatch, AllProbesSent with no
\* probe in flight, Wait with all count probes issued and one pending
OneOfThree ==
    /\ last'.post \in {"dispatch", "all_sent", "wait"}
    /\ last'.post = "dispatch" =>
           /\ NumOf(upstream', {"PING_ALL_PROBES_SENT", "PING_WAIT"})
                  = NumOf(upstream, {"PING_ALL_PROBES_SENT", "PING_WAIT"})
           /\ terminated' = terminated
    /\ last'.post = "all_sent" =>
           /\ pdata'.valid
           /\ pdata'.num_probes_in_flight = 0
           /\ upstream'[Len(upstream')].type = "PING_ALL_PROBES_SENT"
           /\ NumOf(upstream', {"PING_ALL_PROBES_SENT", "PING_WAIT"})
                  = NumOf(upstream, {"PING_ALL_PROBES_SENT", "PING_WAIT"}) + 1
           /\ dispatched' = dispatched
    /\ last'.post = "wait" =>
           /\ pdata'.valid
           /\ pdata'.num_probes_in_flight > 0
           /\ pdata'.num_replies + pdata'.num_probes_in_flight = opts.count
           /\ upstream'[Len(upstream')].type = "PING_WAIT"
           /\ NumOf(upstream', {"PING_ALL_PROBES_SENT", "PING_WAIT"})
                  = NumOf(upstream, {"PING_ALL_PROBES_SENT", "PING_WAIT"}) + 1
           /\ terminated' = terminated
           /\ dispatched' = dispatched

\* C22: every call of the handler that reaches the post-event step does
\* exactly one of: dispatch probes, raise AllProbesSent (no probe in flight),
\* raise Wait (a probe in flight); and Wait is raised only when all count
\* probes have been issued and at least one is pending.
C22_ExactlyOneOfThree ==
    [][PostEventStep => OneOfThree]_vars

\* the size of the initial dispatch: min(floor(timeout / interval), count)
InitialWindow ==
    LET q == CHOOSE k \in 0 .. network_timeout :
                 /\ k * opts.interval <= network_timeout
                 /\ (k + 1) * opts.interval > network_timeout
    IN  IF q < opts.count THEN q ELSE opts.count

\* C23: when no dispatch has failed, num_probes_in_flight is at every exit
\* of the handler at least 0 and at most the size of the initial dispatch,
\* min(floor(timeout / interval), count).
C23_WindowBound ==
    (pdata.valid /\ ~dispatchFailed) =>
        /\ pdata.num_probes_in_flight >= 0
        /\ pdata.num_probes_in_flight <= InitialWindow

\* a refill after a reply fills the window of one probe again, count is 2
C23_Witness ==
    /\ last.event = "PROBE_REPLY"
    /\ last.post = "dispatch"
    /\ pdata.valid
    /\ ~dispatchFailed
    /\ opts.count = 2
    /\ InitialWindow = 1
    /\ pdata.num_probes_in_flight = 1
    /\ pdata.num_replies = 1

\* C24: when no clone, push or send has failed, the number of probes kept in
\* data->probes is num_replies + num_probes_in_flight at every exit of the
\* handler; and as long as the state exists data->probes only grows at its
\* end: no probe is removed or replaced.
C24_ProbesRetained ==
    /\ []((pdata.valid /\ ~dispatchFailed) =>
             Len(pdata.probes) = pdata.num_replies + pdata.num_probes_in_flight)
    /\ [][(pdata.valid /\ pdata'.valid) =>
             /\ Len(pdata'.probes) >= Len(pdata.probes)
             /\ SubSeq(pdata'.probes, 1, Len(pdata.probes)) = pdata.probes]_vars

\* both probes of an instance were answered and are still in data->probes
C24_Witness ==
    /\ pdata.valid
    /\ ~dispatchFailed
    /\ last.post = "all_sent"
    /\ Len(pdata.probes) = 2
    /\ pdata.num_replies = 2
    /\ pdata.num_probes_in_flight = 0

\* C25: a clone kept in data->probes is released by teardown only, never by
\* the destructor of an outcome event: as long as the state exists no
\* element of data->probes has been released, and when teardown has released
\* every element of data->probes no event has released one of them before,
\* so that no clone is released twice or used after its release.
C25_ClonesReleasedOnce ==
    /\ pdata.valid => FreedByEvents \cap (1 .. Len(pdata.probes)) = {}
    /\ released >= 1 => FreedByEvents = {}

\* the outcomes whose classifier predicate holds of reply
ClassifiersHolding(reply) ==
    {c \in PerProbeOutcomes :
        \/ c = "PING_DST_NET_UNREACHABLE" /\ destination_network_unreachable(reply)
        \/ c = "PING_DST_HOST_UNREACHABLE" /\ destination_host_unreachable(reply)
        \/ c = "PING_DST_PROT_UNREACHABLE" /\ destination_protocol_unreachable(reply)
        \/ c = "PING_DST_PORT_UNREACHABLE" /\ destination_port_unreachable(reply)
        \/ c = "PING_TTL_EXCEEDED_TRANSIT" /\ ttl_exceeded(reply)
        \/ c = "PING_TIME_EXCEEDED_REASSEMBLY" /\ fragment_reassembly_time_exceeded(reply)
        \/ c = "PING_REDIRECT" /\ redirect(reply)
        \/ c = "PING_PARAMETER_PROBLEM" /\ parameter_problem(reply)}

\* C26: of every reply handled at most one of the eight classifier
\* predicates holds, so the outcome of a reply that is not from the
\* destination is the class of the one predicate that holds (GenError if
\* none does) whatever the order of the tests; and a reply whose version is
\* not 4 has the outcome of the same reply with version 6.
C26_ClassifiersExclusive ==
    last.event = "PROBE_REPLY" =>
        LET r     == last.reply
            holds == ClassifiersHolding(r)
        IN  /\ Cardinality(holds) <= 1
            /\ ~destination_reached(opts.dst_addr, r) =>
                   /\ holds = {} => last.outcome = "PING_GEN_ERROR"
                   /\ holds # {} => last.outcome \in holds
            /\ probe_extract(r, "version") # 4 =>
                   last.outcome = ReplyOutcome(opts.dst_addr,
                                      [r EXCEPT !.has_version = TRUE, !.version = 6])

\* a reply of version 5 with the IPv6 type and code of an unrecognized next
\* header, from a router, was reported as protocol unreachable
C26_Witness ==
    /\ last.event = "PROBE_REPLY"
    /\ last.reply.has_src_ip /\ last.reply.src_ip # opts.dst_addr
    /\ AllExtracted(last.reply)
    /\ last.reply.version = 5
    /\ last.reply.type = ICMP6_PARAM_PROB
    /\ last.reply.code = ICMP6_PARAMPROB_NEXTHEADER
    /\ last.outcome = "PING_DST_PROT_UNREACHABLE"

====
